---- MODULE Spec2Model ----
(***************************************************************************)
(* A model of memprof's Mach-O backend (src/ext/mach.c): symbol lookup,    *)
(* the image / segment / section scanner, the dyld stub-table patcher,     *)
(* the inline call-site scan and the executable page allocator.            *)
(*                                                                         *)
(* Memory layout conventions of the model:                                 *)
(*   - C strings are tuples of one-character strings (no NUL inside);      *)
(*   - an address is a natural number, NULL is 0;                          *)
(*   - a stub section's data is a tuple of dyld_stub_entry records; the    *)
(*     `offset' operand of an entry designates a pointer slot of the       *)
(*     image (slots[offset]), which lies outside the stub table, and no    *)
(*     two entries of one image designate the same slot (one lazy pointer  *)
(*     per stub, as the linker lays them out);                             *)
(*   - a __text section's data is a tuple of cells, one per byte offset:   *)
(*     what the instruction encoder sees when it looks at that offset.     *)
(***************************************************************************)
EXTENDS Integers, Sequences, FiniteSets, TLC

VARIABLES
  symbol_table,    \* mach_config.symbol_table (with the names of the string table)
  image_offset,    \* mach_config.image_offset
  images,          \* the images dyld has loaded, with their memory
  own,             \* index of the image whose header is _mh_bundle_header
  pc,              \* "idle", or which operation returned last
  calls,           \* number of bin_update_image / stub passes made so far
  trampee,         \* last call: the symbol name passed
  trampee_addr,    \* last call: what bin_find_symbol returned for it
  tramp,           \* last call: the tramp_st2_entry passed
  ret,             \* last call: the value returned
  before,          \* last call: `images' as it was when the call started
  scanned,         \* last call: images handed to update_bin_for_mach_header
  dispatched,      \* last call: sections handed to a patcher, with its result
  encoder_calls,   \* last call: number of arch_insert_st1_tramp invocations
  outcomes,        \* all calls: <<outcome class, value returned>> pairs seen
  mapped,          \* page addresses currently mapped in the process
  handed,          \* bin_allocate_page: one record per call made
  requests,        \* last bin_allocate_page call: the hints passed to mmap
  refused,         \* last bin_allocate_page call: the hints the OS refuses
  found,           \* last bin_find_symbol call: arguments and results
  named            \* last bin_find_symbol_name call: argument and result

vars == <<symbol_table, image_offset, images, own, pc, calls, trampee,
          trampee_addr, tramp, ret, before, scanned, dispatched,
          encoder_calls, outcomes, mapped, handed, requests, refused,
          found, named>>

procVars == <<symbol_table, image_offset, images, own>>
callVars == <<calls, trampee, trampee_addr, tramp, ret, before, scanned,
              dispatched, encoder_calls, outcomes>>
allocVars == <<mapped, handed, requests, refused>>
lookupVars == <<found, named>>

(***************************************************************************)
(* Bounds of the model.                                                    *)
(***************************************************************************)
MaxImages == 3        \* loaded images, the module's own bundle included
MaxCalls == 2         \* bin_update_image calls in one run
MaxEntries == 2       \* entries of a synthetic stub table
HighImageAddr == 2    \* highest address inside the loaded images
MaxAllocs == 2        \* bin_allocate_page calls in one run
PageSize == 2         \* memprof_config.pagesize
IntMax == 7           \* INT_MAX, scaled down
HighStrides == 1      \* page strides of the address space at or above INT_MAX

(***************************************************************************)
(* Program constants.                                                      *)
(***************************************************************************)
NULL == 0
MAP_FAILED == -1
JmpOpcode0 == 255         \* 0xff
JmpOpcode1 == 37          \* 0x25
StubEntrySize == 6        \* sizeof(struct dyld_stub_entry), packed
BundleLen == 6
LibrubyLen == 13
StubPrefixLen == 13

(***************************************************************************)
(* C strings.                                                              *)
(***************************************************************************)
Min(a, b) == IF a < b THEN a ELSE b

strlen(s) == Len(s)

\* strcmp(a, b) == 0
strcmp0(a, b) == a = b

\* strncmp(a, b, n) == 0: the first n characters agree, a string that ends
\* before n characters agreeing only with a string that ends there too.
strncmp0(a, b, n) ==
  SubSeq(a, 1, Min(n, Len(a))) = SubSeq(b, 1, Min(n, Len(b)))

\* s + k, for k <= strlen(s)
StrFrom(s, k) == SubSeq(s, k + 1, Len(s))

S_bundle == <<"b","u","n","d","l","e">>
S_libruby_dylib == <<"l","i","b","r","u","b","y",".","d","y","l","i","b">>
S_symbol_stub == <<"_","_","s","y","m","b","o","l","_","s","t","u","b">>
S_text == <<"_","_","t","e","x","t">>

(***************************************************************************)
(* Symbol Resolver.  A symbol table entry is [string, n_value]: `string'   *)
(* is the entry's name in the string table (get_symtab_string of its       *)
(* n_strx), with the one-byte prefix.                                      *)
(***************************************************************************)
RECURSIVE bin_find_symbol_scan(_, _)
\* The for loop of bin_find_symbol from index i on: the index of the first
\* entry whose name, after the prefix byte, is `symbol'; 0 when the loop
\* ends without a match.
bin_find_symbol_scan(symbol, i) ==
  IF ~(i <= Len(symbol_table)) THEN 0
  ELSE IF strcmp0(symbol, StrFrom(symbol_table[i].string, 1)) THEN i
       ELSE bin_find_symbol_scan(symbol, i + 1)

\* bin_find_symbol(symbol, NULL, 0): the address, or NULL.
bin_find_symbol(symbol) ==
  LET i == bin_find_symbol_scan(symbol, 1)
  IN  IF i = 0 THEN NULL ELSE symbol_table[i].n_value + image_offset

(***************************************************************************)
(* Stub-Table Patcher.                                                     *)
(***************************************************************************)
\* A plausible slip: taking the offset operand itself for the jump target.
get_dyld_stub_target_operand(entry, slots) ==
  IF entry.jmp[1] = JmpOpcode0 /\ entry.jmp[2] = JmpOpcode1
  THEN entry.offset
  ELSE NULL

\* A plausible slip: testing the first opcode byte only.
get_dyld_stub_target_first_byte(entry, slots) ==
  IF entry.jmp[1] = JmpOpcode0
  THEN slots[entry.offset]
  ELSE NULL

get_dyld_stub_target(entry, slots) ==
  IF entry.jmp[1] = JmpOpcode0 /\ entry.jmp[2] = JmpOpcode1
  THEN slots[entry.offset]
  ELSE NULL

set_dyld_stub_target(entry, slots, addr) ==
  [slots EXCEPT ![entry.offset] = addr]

RECURSIVE update_dyld_stub_table_loop(_, _, _, _, _, _, _)
\* The for loop of update_dyld_stub_table, at entry number k (from 0).
update_dyld_stub_table_loop(k, table, len, slots, r, t_addr, tr) ==
  IF ~(k * StubEntrySize < len) THEN [slots |-> slots, ret |-> r]
  ELSE LET entry == table[k + 1]
           target == get_dyld_stub_target(entry, slots)
       IN  IF t_addr = target
           THEN update_dyld_stub_table_loop(k + 1, table, len,
                  set_dyld_stub_target(entry, slots, tr.addr), 0, t_addr, tr)
           ELSE update_dyld_stub_table_loop(k + 1, table, len, slots, r,
                  t_addr, tr)

update_dyld_stub_table(table, len, slots, t_addr, tr) ==
  update_dyld_stub_table_loop(0, table, len, slots, -1, t_addr, tr)

\* dladdr(addr, &info) for an address inside image img: whether it succeeds
\* is part of the image's description (img.dladdr), info.dli_fname is its path.
\* A plausible slip: patching every stub table, whatever the file name.
should_update_stub_table_any(img) == 1

should_update_stub_table(img) ==
  IF img.dladdr
  THEN LET len == strlen(img.fname)
       IN  IF len >= BundleLen
              /\ strcmp0(StrFrom(img.fname, len - BundleLen), S_bundle)
           THEN 1
           ELSE IF len >= LibrubyLen
                   /\ strcmp0(StrFrom(img.fname, len - LibrubyLen),
                              S_libruby_dylib)
                THEN 1
                ELSE 0
  ELSE 0

(***************************************************************************)
(* Inline Call-Site Patcher: the instruction encoder, which is not part    *)
(* of mach.c.  At one offset it installs the jump to the trampoline if     *)
(* and only if it recognises a call to the target there.                   *)
(***************************************************************************)
arch_insert_st1_tramp(cell, t_addr, tr) ==
  IF cell.op = "call" /\ cell.target = t_addr
  THEN [cell |-> [cell EXCEPT !.target = tr.addr], ret |-> 0]
  ELSE [cell |-> cell, ret |-> 1]

(***************************************************************************)
(* Image/Section Scanner.                                                  *)
(*   image   [fname, dladdr, cmds, slots]                                  *)
(*   command [cmd, segname, sects]      (sects is <<>> unless a segment)   *)
(*   section [sectname, size, data]                                        *)
(* The scan carries m = [images, scanned, dispatched, encoder_calls]: the  *)
(* process memory as patched so far, and a record of what was visited.     *)
(***************************************************************************)
\* The idiom `if (f(...) == 0) ret = 0;' that folds a result x into ret.
\* A plausible slip: `ret = f(...)', which lets a later failure reset ret.
any_success_last(r, x) == IF x = 0 THEN 0 ELSE -1

any_success(r, x) == IF x = 0 THEN 0 ELSE r

RECURSIVE getsect_scan(_, _, _, _, _)
getsect_scan(img, segname, sectname, c, s) ==
  IF c > Len(img.cmds) THEN [c |-> 0, s |-> 0, len |-> 0]
  ELSE IF img.cmds[c].cmd # "LC_SEGMENT_64" \/ s > Len(img.cmds[c].sects)
       THEN getsect_scan(img, segname, sectname, c + 1, 1)
       ELSE IF img.cmds[c].segname = segname
               /\ strcmp0(img.cmds[c].sects[s].sectname, sectname)
            THEN [c |-> c, s |-> s, len |-> img.cmds[c].sects[s].size]
            ELSE getsect_scan(img, segname, sectname, c, s + 1)

\* getsectdatafromheader_64(header, segname, sectname, &len): the first
\* section of that name in a segment of that name, and its size; c = 0
\* stands for the null pointer it returns when there is none.
getsectdatafromheader_64(img, segname, sectname) ==
  getsect_scan(img, segname, sectname, 1, 1)

RECURSIVE update_mach_section_text_loop(_, _, _, _, _, _, _)
\* The for loop of update_mach_section over the byte offsets of __text.
update_mach_section_text_loop(count, len, data, r, n, t_addr, tr) ==
  IF ~(count < len) THEN [data |-> data, ret |-> r, encoder_calls |-> n]
  ELSE LET a == arch_insert_st1_tramp(data[count + 1], t_addr, tr)
       IN  update_mach_section_text_loop(count + 1, len,
             [data EXCEPT ![count + 1] = a.cell], any_success(r, a.ret),
             n + 1, t_addr, tr)

\* update_mach_section for section `sect' of image i: [m, ret].
update_mach_section(m, i, sect, t_addr, tr) ==
  LET img == m.images[i]
      section == getsectdatafromheader_64(img, "__TEXT", sect.sectname)
  IN  IF strncmp0(sect.sectname, S_symbol_stub, StubPrefixLen)
      THEN IF should_update_stub_table(img) # 0
           THEN LET u == update_dyld_stub_table(
                           img.cmds[section.c].sects[section.s].data,
                           sect.size, img.slots, t_addr, tr)
                    r == any_success(-1, u.ret)
                IN  [m |-> [m EXCEPT
                              !.images[i].slots = u.slots,
                              !.dispatched = Append(@,
                                [image |-> i, sectname |-> sect.sectname,
                                 patcher |-> "stub", ret |-> u.ret])],
                     ret |-> r]
           ELSE [m |-> m, ret |-> -1]
      ELSE IF strcmp0(sect.sectname, S_text)
           THEN LET u == update_mach_section_text_loop(0, section.len,
                           IF section.c = 0 THEN <<>>
                           ELSE img.cmds[section.c].sects[section.s].data,
                           -1, 0, t_addr, tr)
                IN  [m |-> [m EXCEPT
                              !.images[i] =
                                 IF section.c = 0 THEN @
                                 ELSE [@ EXCEPT
                                   !.cmds[section.c].sects[section.s].data
                                      = u.data],
                              !.encoder_calls = @ + u.encoder_calls,
                              !.dispatched = Append(@,
                                [image |-> i, sectname |-> sect.sectname,
                                 patcher |-> "inline", ret |-> u.ret])],
                     ret |-> u.ret]
           ELSE [m |-> m, ret |-> -1]

RECURSIVE update_bin_for_mach_header_loop(_, _, _, _, _, _, _)
\* The two nested for loops of update_bin_for_mach_header, at load command
\* c and section j of it.
update_bin_for_mach_header_loop(m, i, c, j, r, t_addr, tr) ==
  LET cmds == m.images[i].cmds
  IN  IF ~(c <= Len(cmds)) THEN [m |-> m, ret |-> r]
      ELSE IF cmds[c].cmd # "LC_SEGMENT_64" \/ ~(j <= Len(cmds[c].sects))
           THEN update_bin_for_mach_header_loop(m, i, c + 1, 1, r, t_addr, tr)
           ELSE LET u == update_mach_section(m, i, cmds[c].sects[j],
                                             t_addr, tr)
                IN  update_bin_for_mach_header_loop(u.m, i, c, j + 1,
                      any_success(r, u.ret), t_addr, tr)

update_bin_for_mach_header(m, i, t_addr, tr) ==
  update_bin_for_mach_header_loop(
    [m EXCEPT !.scanned = Append(@, i)], i, 1, 1, -1, t_addr, tr)

\* (void*)current_hdr == &_mh_bundle_header
\* A plausible slip: leaving the test out.
is_mh_bundle_header_never(i) == FALSE

is_mh_bundle_header(i) == i = own

RECURSIVE bin_update_image_loop(_, _, _, _, _)
\* The for loop of bin_update_image over the loaded images, at image i.
bin_update_image_loop(m, i, r, t_addr, tr) ==
  IF ~(i <= Len(m.images)) THEN [m |-> m, ret |-> r]
  ELSE IF is_mh_bundle_header(i)
       THEN bin_update_image_loop(m, i + 1, r, t_addr, tr)
       ELSE LET u == update_bin_for_mach_header(m, i, t_addr, tr)
            IN  bin_update_image_loop(u.m, i + 1, any_success(r, u.ret),
                                      t_addr, tr)

\* What one call did, seen from outside: the class the caller is told about.
OutcomeClass(name, mem0, mem1) ==
  IF bin_find_symbol_scan(name, 1) = 0 THEN "no_target"
  ELSE IF mem1 = mem0 THEN "no_site" ELSE "success"

\* The trampoline entries are handed out one per call, above the images.
tramp_table(k) == [addr |-> HighImageAddr + k]

bin_update_image(name, tr) ==
  /\ calls < MaxCalls
  /\ LET t == bin_find_symbol(name)
         u == bin_update_image_loop(
                [images |-> images, scanned |-> <<>>, dispatched |-> <<>>,
                 encoder_calls |-> 0], 1, -1, t, tr)
     IN  /\ images' = u.m.images
         /\ ret' = u.ret
         /\ trampee_addr' = t
         /\ scanned' = u.m.scanned
         /\ dispatched' = u.m.dispatched
         /\ encoder_calls' = u.m.encoder_calls
         /\ outcomes' = outcomes \cup
              {<<OutcomeClass(name, images, u.m.images), u.ret>>}
  /\ trampee' = name
  /\ tramp' = tr
  /\ before' = images
  /\ calls' = calls + 1
  /\ pc' = "bin_update_image"
  /\ UNCHANGED <<symbol_table, image_offset, own>>
  /\ UNCHANGED allocVars
  /\ UNCHANGED lookupVars

(***************************************************************************)
(* Executable Page Allocator.  Addresses are multiples of the page size;   *)
(* the loop of bin_allocate_page covers the strides below INT_MAX minus    *)
(* one page, and the address space goes on for HighStrides pages more.     *)
(***************************************************************************)
NopByte == 144            \* 0x90

RECURSIVE StridesBelow(_, _)
\* The page strides i, i + PageSize, ... that are below `limit'.
StridesBelow(i, limit) ==
  IF i < limit THEN {i} \cup StridesBelow(i + PageSize, limit) ELSE {}

LoopStrides == StridesBelow(PageSize, IntMax - PageSize)
AddressSpaceTop == IntMax + HighStrides * PageSize
AllStrides == StridesBelow(PageSize, AddressSpaceTop)

\* mmap(hint, pagesize, RWX, MAP_ANON|MAP_PRIVATE, -1, 0), without MAP_FIXED:
\* the OS refuses (MAP_FAILED), or maps a page that was not mapped, at the
\* hint or elsewhere, and never at address 0.  `os' is the OS's disposition
\* for this call: the hints it refuses and where it places the mapping.
mmap(hint, os, mappedNow) ==
  IF hint \in os.refuses THEN MAP_FAILED ELSE os.place

\* The dispositions the OS can have when mappedNow is mapped: with no page
\* left it refuses every hint.
OsDispositions(mappedNow) ==
  IF AllStrides \ mappedNow = {}
  THEN {[refuses |-> AllStrides, place |-> MAP_FAILED]}
  ELSE [refuses : SUBSET AllStrides, place : AllStrides \ mappedNow]

\* The first hint of the search.  A plausible slip: starting at address 0.
first_hint_zero == NULL

first_hint == PageSize

\* What the function returns once mmap has mapped r for hint i.
\* A plausible slip: returning the address asked for.
mapped_page_hint(i, r) == i

mapped_page(i, r) == r

RECURSIVE bin_allocate_page_loop(_, _, _, _)
\* The for loop of bin_allocate_page at hint i, reqs being the hints tried.
bin_allocate_page_loop(i, os, mappedNow, reqs) ==
  IF ~(i < IntMax - PageSize)
  THEN [ret |-> NULL, page |-> MAP_FAILED, requests |-> reqs]
  ELSE LET r == mmap(i, os, mappedNow)
       IN  IF r # MAP_FAILED
           THEN [ret |-> mapped_page(i, r), page |-> r,
                 requests |-> Append(reqs, i)]
           ELSE bin_allocate_page_loop(i + PageSize, os, mappedNow,
                                       Append(reqs, i))

bin_allocate_page(os) ==
  /\ Len(handed) < MaxAllocs
  /\ LET u == bin_allocate_page_loop(first_hint, os, mapped, <<>>)
     IN  /\ mapped' = IF u.page # MAP_FAILED THEN mapped \cup {u.page}
                      ELSE mapped
         /\ handed' = Append(handed,
              [ret |-> u.ret, page |-> u.page,
               fill |-> IF u.page # MAP_FAILED THEN NopByte ELSE NULL])
         /\ requests' = u.requests
  /\ refused' = os.refuses
  /\ pc' = "bin_allocate_page"
  /\ UNCHANGED procVars
  /\ UNCHANGED callVars
  /\ UNCHANGED lookupVars

(***************************************************************************)
(* The processes the model starts from.                                    *)
(***************************************************************************)
S_symbol_stub1 == S_symbol_stub \o <<"1">>
S_textcoal_nt == S_text \o <<"c","o","a","l","_","n","t">>
S_const == <<"_","_","c","o","n","s","t">>
S_data == <<"_","_","d","a","t","a">>

P_libruby == S_libruby_dylib
P_usr_libruby == <<"/","u","/">> \o S_libruby_dylib
P_gem_bundle == <<"g","e","m",".">> \o S_bundle
P_memprof_bundle == <<"m","e","m","p","r","o","f",".">> \o S_bundle
P_libc_dylib == <<"l","i","b","c",".","d","y","l","i","b">>
P_ruby == <<"r","u","b","y">>

Entry(b0, b1, off) == [jmp |-> <<b0, b1>>, offset |-> off]
Call(a) == [op |-> "call", target |-> a]
Other == [op |-> "other", target |-> NULL]

StubSect(name, entries) ==
  [sectname |-> name, size |-> StubEntrySize * Len(entries), data |-> entries]
TextSect(name, cells) ==
  [sectname |-> name, size |-> Len(cells), data |-> cells]
Segment(name, sects) ==
  [cmd |-> "LC_SEGMENT_64", segname |-> name, sects |-> sects]
Symtab == [cmd |-> "LC_SYMTAB", segname |-> "", sects |-> <<>>]

\* The good opcode pair, and pairs wrong in the second or in the first byte.
JmpPatterns == {<<JmpOpcode0, JmpOpcode1>>, <<JmpOpcode0, 21>>, <<144, JmpOpcode1>>}

\* A symbol table, some code calling address 1, a stub to 1 and a malformed
\* stub entry, then a data segment.
BinA ==
  [cmds |-> <<Symtab,
              Segment("__TEXT",
                <<TextSect(S_text, <<Call(1), Other>>),
                  StubSect(S_symbol_stub1,
                    <<Entry(JmpOpcode0, JmpOpcode1, 1),
                      Entry(JmpOpcode0, 21, 2)>>)>>),
              Segment("__DATA", <<TextSect(S_data, <<Other>>)>>)>>,
   slots |-> <<1, 2>>]

\* Two well-formed stubs, one to address 2 and one whose slot holds NULL.
BinB ==
  [cmds |-> <<Segment("__TEXT",
                <<StubSect(S_symbol_stub,
                    <<Entry(JmpOpcode0, JmpOpcode1, 2),
                      Entry(JmpOpcode0, JmpOpcode1, 1)>>),
                  TextSect(S_const, <<Other>>)>>),
              Symtab>>,
   slots |-> <<NULL, 2>>]

\* Coalesced text calling 1 (not the __text section), a malformed stub whose
\* slot holds 1, code calling 2.
BinC ==
  [cmds |-> <<Segment("__TEXT",
                <<TextSect(S_textcoal_nt, <<Call(1)>>),
                  StubSect(S_symbol_stub, <<Entry(144, JmpOpcode1, 1)>>),
                  TextSect(S_text, <<Other, Call(2)>>)>>)>>,
   slots |-> <<1>>]

\* One well-formed stub to 2, code calling 2.
BinD ==
  [cmds |-> <<Segment("__TEXT",
                <<StubSect(S_symbol_stub1, <<Entry(JmpOpcode0, JmpOpcode1, 1)>>),
                  TextSect(S_text, <<Call(2)>>)>>)>>,
   slots |-> <<2>>]

Image(path, ok, bin) ==
  [fname |-> path, dladdr |-> ok, cmds |-> bin.cmds, slots |-> bin.slots]

\* Images other than the module's own bundle.
OtherImages ==
  { Image(P_libruby, TRUE, BinA), Image(P_usr_libruby, TRUE, BinD),
    Image(P_gem_bundle, TRUE, BinB), Image(P_gem_bundle, TRUE, BinC),
    Image(P_libc_dylib, TRUE, BinA), Image(P_ruby, TRUE, BinC),
    Image(P_gem_bundle, FALSE, BinA) }

\* The module's own bundle: its path ends in "bundle".
OwnImages == { Image(P_memprof_bundle, TRUE, BinA) }

InsertAt(seq, k, x) == SubSeq(seq, 1, k - 1) \o <<x>> \o SubSeq(seq, k, Len(seq))

\* mach_config after bin_init: a table sorted by n_value, and the slide.
\* In the first the image was slid by 1 and _c is an alias of _a; in the
\* second _b is an undefined symbol (n_value 0) of an image that was not
\* slid, so that its address is NULL although the name is in the table.
SymbolConfigs ==
  { [table |-> <<[string |-> <<"_","c">>, n_value |-> 0],
                 [string |-> <<"_","a">>, n_value |-> 0],
                 [string |-> <<"_","b">>, n_value |-> 1]>>, offset |-> 1],
    [table |-> <<[string |-> <<"_","b">>, n_value |-> 0],
                 [string |-> <<"_","a">>, n_value |-> 2]>>, offset |-> 0] }

TrampeeNames == {<<"a">>, <<"b">>, <<"z">>}

NoCall ==
  /\ pc = "idle"
  /\ calls = 0
  /\ trampee = <<>>
  /\ trampee_addr = NULL
  /\ tramp = [addr |-> NULL]
  /\ ret = 0
  /\ before = images
  /\ scanned = <<>>
  /\ dispatched = <<>>
  /\ encoder_calls = 0
  /\ outcomes = {}

NoAlloc ==
  /\ mapped = {}
  /\ handed = <<>>
  /\ requests = <<>>
  /\ refused = {}

\* No symbol lookup has been made.
NoLookup ==
  /\ found = [symbol |-> <<>>, status |-> "none", ptr |-> NULL,
              size |-> NULL, reads |-> 0]
  /\ named = [addr |-> NULL, status |-> "none", name |-> <<>>]

Init ==
  /\ \E cfg \in SymbolConfigs :
       /\ symbol_table = cfg.table
       /\ image_offset = cfg.offset
  /\ \E n \in 0..(MaxImages - 1) :
       \E others \in [1..n -> OtherImages] :
         \E k \in 1..(n + 1) :
           \E o \in OwnImages :
             /\ images = InsertAt(others, k, o)
             /\ own = k
  /\ NoCall
  /\ NoAlloc
  /\ NoLookup

Next ==
  \E name \in TrampeeNames : bin_update_image(name, tramp_table(calls + 1))

Spec == Init /\ [][Next]_vars

(***************************************************************************)
(* Vocabulary of the properties, stated on the memory itself.              *)
(***************************************************************************)
Returned == pc = "bin_update_image"

EndsWith(str, suffix) ==
  /\ Len(str) >= Len(suffix)
  /\ SubSeq(str, Len(str) - Len(suffix) + 1, Len(str)) = suffix

\* The name, after its prefix byte, is in the symbol table.
Present(name) ==
  \E i \in 1..Len(symbol_table) : Tail(symbol_table[i].string) = name

IsStubName(name) ==
  /\ Len(name) >= Len(S_symbol_stub)
  /\ SubSeq(name, 1, Len(S_symbol_stub)) = S_symbol_stub

\* The sections of an image, as <<command index, section index>> pairs.
SectionsOf(img) ==
  UNION { { <<c, s>> : s \in 1..Len(img.cmds[c].sects) } :
          c \in { c \in 1..Len(img.cmds) :
                    img.cmds[c].cmd = "LC_SEGMENT_64" } }

Sect(img, cs) == img.cmds[cs[1]].sects[cs[2]]

WellFormed(e) == e.jmp = <<JmpOpcode0, JmpOpcode1>>

\* The jump target a stub entry decodes to: NULL when it is malformed.
Decoded(e, slots) == IF WellFormed(e) THEN slots[e.offset] ELSE NULL

AllowListed(img) ==
  img.dladdr /\ (EndsWith(img.fname, S_bundle)
                 \/ EndsWith(img.fname, S_libruby_dylib))

Others == (1..Len(images)) \ {own}

\* No stub entry of a scanned image decodes to address t in memory mem.
NoStubDecodesTo(mem, t) ==
  \A i \in Others : \A cs \in SectionsOf(mem[i]) :
    IsStubName(Sect(mem[i], cs).sectname) =>
      \A k \in 1..Len(Sect(mem[i], cs).data) :
        Decoded(Sect(mem[i], cs).data[k], mem[i].slots) # t

\* No offset of a scanned code section holds a call to address t.
NoCallTo(mem, t) ==
  \A i \in Others : \A cs \in SectionsOf(mem[i]) :
    Sect(mem[i], cs).sectname = S_text =>
      \A k \in 1..Len(Sect(mem[i], cs).data) :
        Sect(mem[i], cs).data[k] # Call(t)

\* C1: update_image with a target name absent from the symbol table returns
\* the failure result and writes to no byte of the scanned memory: no stub
\* pointer slot and no section byte changes.
C1_AbsentTargetWritesNothing ==
  (Returned /\ ~Present(trampee)) => (ret = -1 /\ images = before)

\* C2: when the target symbol is not found, the patch operation ends without
\* scanning: no image is enumerated, no section is dispatched to a patcher
\* and the encoder is never invoked.
C2_AbsentTargetNeverScans ==
  (Returned /\ ~Present(trampee)) =>
    (scanned = <<>> /\ dispatched = <<>> /\ encoder_calls = 0)

C4_OutcomesDistinguishable ==
  \A p \in outcomes : \A q \in outcomes : p[1] # q[1] => p[2] # q[2]

\* C6: update_image writes to no stub pointer slot of an image whose path
\* does not match the allow-list, and hands a stub section to the
\* stub-table patcher only when its image's path matches.
C6_OnlyAllowListedStubTables ==
  Returned =>
    /\ \A i \in 1..Len(images) :
         ~AllowListed(before[i]) => images[i].slots = before[i].slots
    /\ \A k \in 1..Len(dispatched) :
         dispatched[k].patcher = "stub"
           => AllowListed(before[dispatched[k].image])

\* C6 happens: a scanned image off the allow-list holds a well-formed stub
\* entry to the very target that was patched elsewhere.
C6_Witness ==
  /\ Returned
  /\ ret = 0
  /\ trampee_addr # NULL
  /\ \E i \in Others :
       /\ ~AllowListed(before[i])
       /\ \E cs \in SectionsOf(before[i]) :
            /\ IsStubName(Sect(before[i], cs).sectname)
            /\ \E k \in 1..Len(Sect(before[i], cs).data) :
                 /\ WellFormed(Sect(before[i], cs).data[k])
                 /\ Decoded(Sect(before[i], cs).data[k], before[i].slots)
                      = trampee_addr

\* C7: the module's own image is never handed to the segment/section
\* scanner, none of its sections reaches a patcher and none of its bytes is
\* written; every other loaded image is scanned exactly once, in order.
C7_OwnImageNeverScanned ==
  Returned =>
    /\ \A k \in 1..Len(scanned) : scanned[k] # own
    /\ \A k \in 1..Len(dispatched) : dispatched[k].image # own
    /\ images[own] = before[own]
    /\ scanned = SelectSeq([i \in 1..Len(images) |-> i],
                           LAMBDA i : i # own)

\* C7 happens: the own image matches the allow-list and holds both a stub
\* and a call to the target, and another image was patched.
C7_Witness ==
  /\ Returned
  /\ ret = 0
  /\ trampee_addr # NULL
  /\ Len(scanned) >= 2
  /\ AllowListed(before[own])
  /\ \E cs \in SectionsOf(before[own]) :
       /\ IsStubName(Sect(before[own], cs).sectname)
       /\ \E k \in 1..Len(Sect(before[own], cs).data) :
            Decoded(Sect(before[own], cs).data[k], before[own].slots)
              = trampee_addr
  /\ \E cs \in SectionsOf(before[own]) :
       /\ Sect(before[own], cs).sectname = S_text
       /\ \E k \in 1..Len(Sect(before[own], cs).data) :
            Sect(before[own], cs).data[k] = Call(trampee_addr)

\* The sections a scan has to hand to a patcher: image, name and patcher.
Dispatchable ==
  UNION { { [image |-> i, sectname |-> Sect(before[i], cs).sectname,
             patcher |-> IF IsStubName(Sect(before[i], cs).sectname)
                         THEN "stub" ELSE "inline"] :
            cs \in { x \in SectionsOf(before[i]) :
                       \/ /\ IsStubName(Sect(before[i], x).sectname)
                          /\ AllowListed(before[i])
                       \/ Sect(before[i], x).sectname = S_text } } :
          i \in Others }

\* Section d of the dispatch record shows a redirection in memory: a slot of
\* one of its stub entries, or one of its code offsets, now leads to the
\* trampoline of this call.
Redirected(d) ==
  \E cs \in SectionsOf(images[d.image]) :
    /\ Sect(images[d.image], cs).sectname = d.sectname
    /\ \E k \in 1..Len(Sect(images[d.image], cs).data) :
         IF d.patcher = "stub"
         THEN images[d.image].slots[Sect(images[d.image], cs).data[k].offset]
                = tramp.addr
         ELSE Sect(images[d.image], cs).data[k] = Call(tramp.addr)

\* C8: update_image returns success if and only if at least one dispatched
\* section of a scanned image reported a redirection (a stub section with a
\* rewritten entry, a code section with a patched offset); a later failure
\* never resets an earlier success, and the sections dispatched are exactly
\* the stub sections of allow-listed images and the code sections.
C8_SuccessIsAnyRedirection ==
  Returned =>
    /\ ret \in {0, -1}
    /\ ret = 0 <=> \E k \in 1..Len(dispatched) : dispatched[k].ret = 0
    /\ \A k \in 1..Len(dispatched) :
         dispatched[k].ret = 0 <=> Redirected(dispatched[k])
    /\ { [image |-> dispatched[k].image, sectname |-> dispatched[k].sectname,
          patcher |-> dispatched[k].patcher] : k \in 1..Len(dispatched) }
         = Dispatchable
    /\ Len(dispatched) = Cardinality(Dispatchable)

\* C8 happens: a section of one image was redirected, a section dispatched
\* later in another image was not, and a scanned image holds a section that
\* is neither a stub table nor the code section.
C8_Witness ==
  /\ Returned
  /\ ret = 0
  /\ \E j \in 1..Len(dispatched) : \E k \in 1..Len(dispatched) :
       /\ j < k
       /\ dispatched[j].ret = 0
       /\ dispatched[k].ret # 0
       /\ dispatched[j].image # dispatched[k].image
       /\ dispatched[k].image = scanned[Len(scanned)]
  /\ \E i \in Others : \E cs \in SectionsOf(before[i]) :
       /\ ~IsStubName(Sect(before[i], cs).sectname)
       /\ Sect(before[i], cs).sectname # S_text

(***************************************************************************)
(* The stub-table patcher on its own, over synthetic stub tables: every    *)
(* table of at most MaxEntries entries, each with its own pointer slot,    *)
(* every content of the slots, one pass for a resolved target.             *)
(***************************************************************************)
StubTables ==
  UNION { { t \in [1..n -> [jmp : JmpPatterns, offset : 1..MaxEntries]] :
              \A j \in 1..n : \A k \in 1..n :
                 j # k => t[j].offset # t[k].offset } :
          n \in 0..MaxEntries }

InitStub ==
  /\ symbol_table = <<[string |-> <<"_","a">>, n_value |-> 1]>>
  /\ image_offset = 0
  /\ \E t \in StubTables :
       \E sl \in [1..MaxEntries -> 0..HighImageAddr] :
         images = <<Image(P_gem_bundle, TRUE,
                      [cmds |-> <<Segment("__TEXT",
                                    <<StubSect(S_symbol_stub, t)>>)>>,
                       slots |-> sl])>>
  /\ own = 0
  /\ NoCall
  /\ NoAlloc
  /\ NoLookup

\* One call of update_dyld_stub_table on the table, for target address t.
stub_table_pass(t, tr) ==
  /\ pc = "idle"
  /\ LET sect == images[1].cmds[1].sects[1]
         u == update_dyld_stub_table(sect.data, sect.size, images[1].slots,
                                     t, tr)
     IN  /\ images' = [images EXCEPT ![1].slots = u.slots]
         /\ ret' = u.ret
  /\ trampee_addr' = t
  /\ tramp' = tr
  /\ before' = images
  /\ calls' = calls + 1
  /\ pc' = "update_dyld_stub_table"
  /\ UNCHANGED <<symbol_table, image_offset, own, trampee, scanned,
                 dispatched, encoder_calls, outcomes>>
  /\ UNCHANGED allocVars
  /\ UNCHANGED lookupVars

NextStub ==
  \E t \in 1..HighImageAddr : stub_table_pass(t, tramp_table(calls + 1))

SpecStub == InitStub /\ [][NextStub]_vars

StubPassed == pc = "update_dyld_stub_table"

\* Entry k of the table matched: well-formed, its slot holding the target.
Matched(k) ==
  LET e == before[1].cmds[1].sects[1].data[k]
  IN  WellFormed(e) /\ before[1].slots[e.offset] = trampee_addr

\* C5: after a stub-table pass for a non-null target T and trampoline A,
\* the pointer slot of an entry holds A if and only if the entry had the two
\* jump-opcode bytes and its slot held T; every other slot, and every opcode
\* and displacement byte of the table, is unchanged.
C5_StubPassRewritesMatchesOnly ==
  StubPassed =>
    LET table == before[1].cmds[1].sects[1].data
    IN  /\ trampee_addr # NULL
        /\ \A k \in 1..Len(table) :
             /\ images[1].slots[table[k].offset] = tramp.addr <=> Matched(k)
             /\ ~Matched(k) => images[1].slots[table[k].offset]
                                 = before[1].slots[table[k].offset]
        /\ \A j \in DOMAIN before[1].slots :
             (\A k \in 1..Len(table) : table[k].offset # j)
               => images[1].slots[j] = before[1].slots[j]
        /\ [images[1] EXCEPT !.slots = before[1].slots] = before[1]
        /\ ret = 0 <=> \E k \in 1..Len(table) : Matched(k)

\* C5 happens: one entry matched and was rewritten, and a malformed entry
\* whose slot held the target too was passed over.
C5_Witness ==
  /\ StubPassed
  /\ LET table == before[1].cmds[1].sects[1].data
     IN  \E j \in 1..Len(table) : \E k \in 1..Len(table) :
           /\ Matched(j)
           /\ images[1].slots[table[j].offset] = tramp.addr
           /\ ~WellFormed(table[k])
           /\ before[1].slots[table[k].offset] = trampee_addr

(***************************************************************************)
(* The page allocator on its own.                                          *)
(***************************************************************************)
InitAlloc ==
  /\ symbol_table = <<[string |-> <<"_","a">>, n_value |-> 1]>>
  /\ image_offset = 0
  /\ images = <<Image(P_memprof_bundle, TRUE, BinD)>>
  /\ own = 1
  /\ NoCall
  /\ \E pre \in SUBSET AllStrides :
       /\ Cardinality(pre) <= 1
       /\ mapped = pre
  /\ handed = <<>>
  /\ requests = <<>>
  /\ refused = {}
  /\ NoLookup

NextAlloc == \E os \in OsDispositions(mapped) : bin_allocate_page(os)

SpecAlloc == InitAlloc /\ [][NextAlloc]_vars

\* The calls that handed out a page.
HandedOut == { k \in 1..Len(handed) : handed[k].page # MAP_FAILED }

\* C9: no call of allocate_executable_page returns the zero address as a
\* page, no two calls return the same address, and the pages handed out
\* stay mapped; a call returns the zero address only when it mapped nothing.
C9_PagesNonNullAndDistinct ==
  /\ \A k \in HandedOut :
       /\ handed[k].ret # NULL
       /\ handed[k].ret \in mapped
       /\ \A j \in HandedOut : j # k => handed[j].ret # handed[k].ret
  /\ \A k \in (1..Len(handed)) \ HandedOut : handed[k].ret = NULL

\* C9 happens: two calls handed out pages, the last one after a refused
\* stride and at an address that is not the hint it passed.
C9_Witness ==
  /\ Cardinality(HandedOut) >= 2
  /\ Len(handed) \in HandedOut
  /\ Len(requests) >= 2
  /\ handed[Len(handed)].page # requests[Len(requests)]

AllocReturned == pc = "bin_allocate_page"

\* The hints of the last call are the page strides PageSize, 2*PageSize, ...
\* in order: never zero, strictly increasing, none twice; every hint but the
\* last was refused, and the last one was mapped unless null was returned.
SearchesUpward ==
  /\ \A k \in 1..Len(requests) : requests[k] = k * PageSize
  /\ \A k \in 1..(Len(requests) - 1) : requests[k] \in refused
  /\ handed[Len(handed)].ret # NULL
       => /\ Len(requests) >= 1
          /\ requests[Len(requests)] \notin refused

\* C10 as claimed: the search goes upward in page strides from one page,
\* stops at the first stride the OS maps, and returns null only when every
\* page stride of the address space has been refused.
C10_NullOnlyWhenAllRefused ==
  AllocReturned =>
    /\ SearchesUpward
    /\ handed[Len(handed)].ret = NULL => AllStrides \subseteq refused

\* C10 as amended: ... and returns null only when every page stride below
\* INT_MAX minus one page has been requested and refused.
C10_NullOnlyWhenLoopStridesRefused ==
  AllocReturned =>
    /\ SearchesUpward
    /\ handed[Len(handed)].ret = NULL
         => /\ LoopStrides \subseteq refused
            /\ { requests[k] : k \in 1..Len(requests) } = LoopStrides

\* C10 happens: null is returned after every stride of the loop was
\* refused, while the OS would have mapped a stride above them.
C10_Witness ==
  /\ AllocReturned
  /\ handed[Len(handed)].ret = NULL
  /\ Len(requests) >= 2
  /\ \E h \in AllStrides : h \notin refused /\ h \notin mapped

(***************************************************************************)
(* Symbol lookup by name with a size, and by address.                      *)
(***************************************************************************)
MaxSyms == 3          \* nsyms of the LC_SYMTAB command
MaxPast == 2          \* readable words after the end of symbol_table
WordModulus == 16     \* 2^64, scaled down

SymStrings == {<<"_","a">>, <<"_","b">>}
SymNames == {<<"a">>, <<"b">>, <<"z">>}
Slides == {0, 1}
Nlists == [string : SymStrings, n_value : 0..HighImageAddr]

nlist_cmp(nlist1, nlist2) ==
  IF nlist1.n_value = nlist2.n_value THEN 0
  ELSE IF nlist1.n_value < nlist2.n_value THEN -1
       ELSE 1

\* The orders qsort may leave the pointers to the entries of file_symtbl in:
\* every order of the same entries in which no entry compares greater than
\* a later one (qsort promises no order among entries that compare equal).
extract_symbol_table(file_symtbl) ==
  LET n == Len(file_symtbl)
      orders == { p \in [1..n -> 1..n] : \A j, k \in 1..n : j # k => p[j] # p[k] }
      sorted(t) == \A j, k \in 1..n : j < k => nlist_cmp(t[j], t[k]) <= 0
  IN  { t \in { [j \in 1..n |-> file_symtbl[p[j]]] : p \in orders } : sorted(t) }

\* The files a symbol table is extracted from.
FileSymtbls == UNION { [1..n -> Nlists] : n \in 1..MaxSyms }

\* What a read of one entry through symbol_table[k] gives, k counted from 1:
\* the entry's n_value inside the table; past its end whatever the word
\* after the array points to, which is an n_value of some readable memory
\* or a fault.  `past' lists the words after the array that can be read.
PastWords ==
  {[fault |-> TRUE, n_value |-> 0]} \cup
  { [fault |-> FALSE, n_value |-> v] : v \in 0..HighImageAddr }

Pasts == UNION { [1..n -> PastWords] : n \in 0..MaxPast }

tmp_entry(k, past) ==
  IF k <= Len(symbol_table)
  THEN [fault |-> FALSE, n_value |-> symbol_table[k].n_value]
  ELSE IF k - Len(symbol_table) <= Len(past)
       THEN past[k - Len(symbol_table)]
       ELSE [fault |-> TRUE, n_value |-> 0]

\* nlist_entry->n_value != tmp_entry->n_value
is_next_entry(n_value, tmp_value) == n_value # tmp_value

RECURSIVE next_entry_scan(_, _, _)
\* The while loop that looks for next_entry from symbol_table[i + j] on.
\* `reads' is the highest index read, counted from 1.
next_entry_scan(i, j, past) ==
  LET tmp == tmp_entry(i + j, past)
  IN  IF tmp.fault
      THEN [status |-> "crash", n_value |-> 0, reads |-> i + j]
      ELSE IF is_next_entry(symbol_table[i].n_value, tmp.n_value)
           THEN [status |-> "ok", n_value |-> tmp.n_value, reads |-> i + j]
           ELSE next_entry_scan(i, j + 1, past)

\* bin_find_symbol(symbol, &size, 0).  `size' is what was stored through
\* the pointer, NULL when nothing was stored.
bin_find_symbol_size(symbol, past) ==
  LET i == bin_find_symbol_scan(symbol, 1)
  IN  IF i = 0
      THEN [symbol |-> symbol, status |-> "ok", ptr |-> NULL, size |-> NULL,
            reads |-> 0]
      ELSE LET addr == symbol_table[i].n_value
               next_entry == next_entry_scan(i, 1, past)
           IN  [symbol |-> symbol,
                status |-> next_entry.status,
                ptr |-> IF next_entry.status = "ok"
                        THEN addr + image_offset ELSE NULL,
                size |-> IF next_entry.status = "ok"
                         THEN (next_entry.n_value - addr) % WordModulus
                         ELSE NULL,
                reads |-> next_entry.reads]

\* A plausible slip: comparing the address asked for with the unslid n_value.
symbol_ptr_unslid(n_value) == n_value

\* addr + mach_config.image_offset
symbol_ptr(n_value) == n_value + image_offset

RECURSIVE bin_find_symbol_name_scan(_, _)
\* The for loop of bin_find_symbol_name from index i on: the index of the
\* first entry at the address `symbol'; 0 when the loop ends without one.
bin_find_symbol_name_scan(symbol, i) ==
  IF ~(i <= Len(symbol_table)) THEN 0
  ELSE IF symbol_ptr(symbol_table[i].n_value) = symbol THEN i
       ELSE bin_find_symbol_name_scan(symbol, i + 1)

\* bin_find_symbol_name(symbol): status "null" stands for the NULL name.
bin_find_symbol_name(symbol) ==
  LET i == bin_find_symbol_name_scan(symbol, 1)
  IN  IF i = 0
      THEN [addr |-> symbol, status |-> "null", name |-> <<>>]
      ELSE [addr |-> symbol, status |-> "found",
            name |-> StrFrom(symbol_table[i].string, 1)]

\* A call bin_find_symbol(symbol, &size, 0).  A fault ends the process.
find_symbol_size(symbol, past) ==
  /\ pc = "idle"
  /\ found' = bin_find_symbol_size(symbol, past)
  /\ pc' = IF found'.status = "crash" THEN "crashed" ELSE "bin_find_symbol"
  /\ UNCHANGED named
  /\ UNCHANGED procVars
  /\ UNCHANGED callVars
  /\ UNCHANGED allocVars

\* A call bin_find_symbol(symbol, NULL, 0).
find_symbol(symbol) ==
  /\ pc = "idle"
  /\ found' = [symbol |-> symbol, status |-> "ok",
               ptr |-> bin_find_symbol(symbol), size |-> NULL, reads |-> 0]
  /\ pc' = "bin_find_symbol"
  /\ UNCHANGED named
  /\ UNCHANGED procVars
  /\ UNCHANGED callVars
  /\ UNCHANGED allocVars

\* A call bin_find_symbol_name(symbol).
find_symbol_name(symbol) ==
  /\ pc # "crashed"
  /\ named' = bin_find_symbol_name(symbol)
  /\ pc' = "bin_find_symbol_name"
  /\ UNCHANGED found
  /\ UNCHANGED procVars
  /\ UNCHANGED callVars
  /\ UNCHANGED allocVars

InitSym ==
  /\ \E file_symtbl \in FileSymtbls :
       symbol_table \in extract_symbol_table(file_symtbl)
  /\ image_offset \in Slides
  /\ images = <<Image(P_memprof_bundle, TRUE, BinD)>>
  /\ own = 1
  /\ NoCall
  /\ NoAlloc
  /\ NoLookup

NextSym ==
  \/ \E symbol \in SymNames : \E past \in Pasts : find_symbol_size(symbol, past)
  \/ \E symbol \in SymNames : find_symbol(symbol)
  \/ \E symbol \in 0..(HighImageAddr + 1) : find_symbol_name(symbol)

SpecSym == InitSym /\ [][NextSym]_vars

\* The last lookup by name asked for a size and matched an entry.
Sized == found.reads > 0

\* The index of the entry a lookup by name matches: the first of that name.
MatchIndex(name) ==
  CHOOSE i \in 1..Len(symbol_table) :
    /\ Tail(symbol_table[i].string) = name
    /\ \A k \in 1..(i - 1) : Tail(symbol_table[k].string) # name

\* The addresses of the whole table strictly greater than a.
Greater(a) ==
  { symbol_table[k].n_value : k \in 1..Len(symbol_table) } \ (0..a)

\* The size is the gap from a to the smallest strictly greater address.
SizeIsGap(a) ==
  \E g \in Greater(a) :
    /\ \A h \in Greater(a) : g <= h
    /\ found.size = g - a

\* C11: for every extracted symbol table, entries with duplicated
\* addresses included, and every name present in it, find_by_name returns
\* as size the gap between the matched entry's address and the smallest
\* address of the whole table strictly greater than it: an alias of the
\* matched address is never the next symbol and the size is never 0
\* because of one.
C11_SizeIsGapToNextAddress ==
  (pc \in {"bin_find_symbol", "crashed"} /\ Sized /\ Present(found.symbol)) =>
    /\ found.status = "ok"
    /\ SizeIsGap(symbol_table[MatchIndex(found.symbol)].n_value)

\* The same for the names whose address is not the greatest of the table:
\* the scan then stays inside the table and the size is the gap.
SizeIsGapBelowGreatest ==
  (/\ pc \in {"bin_find_symbol", "crashed"} /\ Sized /\ Present(found.symbol)
   /\ Greater(symbol_table[MatchIndex(found.symbol)].n_value) # {}) =>
    /\ found.status = "ok"
    /\ found.reads <= Len(symbol_table)
    /\ found.size # 0
    /\ SizeIsGap(symbol_table[MatchIndex(found.symbol)].n_value)

\* A sized lookup that matched an entry followed by an alias of its address
\* and then by a greater address.
SizeIsGapBelowGreatest_Witness ==
  /\ pc = "bin_find_symbol" /\ Sized /\ Present(found.symbol)
  /\ LET i == MatchIndex(found.symbol)
     IN  /\ i + 2 <= Len(symbol_table)
         /\ symbol_table[i + 1].n_value = symbol_table[i].n_value
         /\ symbol_table[i + 2].n_value > symbol_table[i].n_value
         /\ found.size = symbol_table[i + 2].n_value - symbol_table[i].n_value

\* A lookup by address of what the last lookup by name returned.
RoundTrip ==
  /\ pc = "bin_find_symbol_name"
  /\ found.status = "ok"
  /\ Present(found.symbol)
  /\ named.addr = found.ptr

\* The index of the first entry that has the n_value of entry i.
FirstAt(i) ==
  CHOOSE f \in 1..i :
    /\ symbol_table[f].n_value = symbol_table[i].n_value
    /\ \A k \in 1..(f - 1) : symbol_table[k].n_value # symbol_table[i].n_value

\* C12 as stated: for every name N present in the table, aliases that share
\* an address with other entries included, find_by_address applied to the
\* address find_by_name(N) returns gives a name equal to N.
C12_RoundTripReturnsName ==
  RoundTrip => (named.status = "found" /\ named.name = found.symbol)

\* C12: for every name N present in the table, find_by_address applied to
\* the address find_by_name(N) returns gives the name, prefix stripped, of
\* the first table entry at N's address: an entry that shares N's address,
\* and N itself when no entry of another name at that address comes before
\* N's entry.
C12_RoundTripReturnsFirstNameAtAddress ==
  RoundTrip =>
    LET i == MatchIndex(found.symbol)
    IN  /\ named.status = "found"
        /\ named.name = Tail(symbol_table[FirstAt(i)].string)
        /\ (\A k \in 1..(i - 1) :
              symbol_table[k].n_value = symbol_table[i].n_value =>
                Tail(symbol_table[k].string) = found.symbol)
           => named.name = found.symbol

\* A round trip on a slid image that comes back with an alias of the name
\* asked for.
C12_Witness ==
  /\ RoundTrip
  /\ image_offset # 0
  /\ named.status = "found"
  /\ named.name # found.symbol

\* C13: the duplicate-address skip scan of the size estimation stays inside
\* the table: when the matched entry is the last one, or every entry after
\* it shares its address, the scan ends without reading the table at or
\* past symbol_count and the call returns, with no size taken from memory
\* outside the table.
C13_ScanStaysInsideTable ==
  (pc \in {"bin_find_symbol", "crashed"} /\ Sized /\ Present(found.symbol)) =>
    /\ found.status = "ok"
    /\ found.reads <= Len(symbol_table)

====
